---- MODULE Spec2Model ----
(***************************************************************************)
(* Model of main.py: the per-frame loop that assigns detected playing      *)
(* cards to the dealer / player zone, evaluates both Blackjack hands and   *)
(* keeps the game_over / winner_message state driven by the keyboard.      *)
(*                                                                         *)
(* Units: the top edge of a bounding box (box.xyxy[0][1]) is a float; it   *)
(* is modelled in half pixels, so that int() is a real truncation.         *)
(* The detector (model) is described by the classes it reports and by the  *)
(* grid of its coordinates: 1 for every half pixel, 2 for whole pixels.    *)
(* shown is the list of the texts cvzone.putTextRect has drawn on the      *)
(* current frame.                                                          *)
(***************************************************************************)
EXTENDS Integers, Sequences, FiniteSets, TLC

VARIABLES pc, cap, model, height, box, nboxes, dealer_hand, player_hand,
          dealer_value, player_value, shown, game_over, winner_message, key

vars == <<pc, cap, model, height, box, nboxes, dealer_hand, player_hand,
          dealer_value, player_value, shown, game_over, winner_message, key>>

(***************************************************************************)
(* Bounds of the model.                                                    *)
(***************************************************************************)
\* detections the result stream yields in one frame (Spec)
MaxBoxes == 6
\* detections per frame in ZoneSpec
MaxZoneBoxes == 2
\* frame height delivered by the camera in Spec and EvalSpec
FrameHeight == 2
\* frame heights delivered by the camera in ZoneSpec: 1..MaxHeight
MaxHeight == 3
\* cards in a hand handed to the evaluator in EvalSpec
MaxHand == 4

\* cards the detector reports in Spec
DetectableCards == {"KS", "QC", "2H"}
\* cards the detector reports in ZoneSpec
ZoneCards == {"AH", "AD", "KS", "9C", "2H"}
\* identifiers in a hand of CardSpec
MaxCardHand == 2
\* identifiers of the hands of CardSpec: cards, and strings that are no card
CardIdentifiers == {"AH", "KS", "10H", "9C", "2H", "1H", "11S", "7X", "XH"}
\* cards in each of the two hands of PermSpec
MaxPermHand == 3
\* cards of the hands of PermSpec
PermCards == {"AH", "AD", "AC", "KS", "9C", "5S"}
\* cards of the hands of EvalSpec
EvalCards == {"AH", "AD", "AC", "AS", "9C", "KS", "QC", "JD", "10H", "2H", "5S"}

(***************************************************************************)
(* Constants of the program.                                               *)
(***************************************************************************)
width == 1280

classNames ==
  << "10C", "10D", "10H", "10S",
     "2C", "2D", "2H", "2S",
     "3C", "3D", "3H", "3S",
     "4C", "4D", "4H", "4S",
     "5C", "5D", "5H", "5S",
     "6C", "6D", "6H", "6S",
     "7C", "7D", "7H", "7S",
     "8C", "8D", "8H", "8S",
     "9C", "9D", "9H", "9S",
     "AC", "AD", "AH", "AS",
     "JC", "JD", "JH", "JS",
     "KC", "KD", "KH", "KS",
     "QC", "QD", "QH", "QS" >>

\* ord('S'), ord('D'), ord('q'); 255 is (-1 & 0xFF), no key pressed
ord_S == 83
ord_D == 68
ord_q == 113
no_key == 255
\* ord('s'): a key the loop does not handle
ord_s == 115

Keys == {ord_S, ord_D, ord_q, ord_s, no_key}

(***************************************************************************)
(* int(): of a string of decimal digits (the rank of a number card), and   *)
(* of a non-negative float given in half pixels.                           *)
(***************************************************************************)
IsDigit(ch) == ch \in {"0", "1", "2", "3", "4", "5", "6", "7", "8", "9"}

DigitValue(ch) == CHOOSE d \in 0..9 : SubSeq("0123456789", d + 1, d + 1) = ch

IsNumeral(s) == Len(s) > 0 /\ \A i \in 1..Len(s) : IsDigit(SubSeq(s, i, i))

\* int() reading a single character of the rank
int_last_digit(s) == DigitValue(SubSeq(s, Len(s), Len(s)))

RECURSIVE int(_)
int(s) ==
  IF Len(s) = 1 THEN DigitValue(s)
  ELSE 10 * int(SubSeq(s, 1, Len(s) - 1)) + DigitValue(SubSeq(s, Len(s), Len(s)))

int_float(halves) == halves \div 2

(***************************************************************************)
(* calculate_blackjack_value(hand)                                         *)
(* The result carries the returned value, the ace counter and the number   *)
(* of iterations of the while loop; error is set when int(rank) raises.    *)
(***************************************************************************)
card_rank(card) == SubSeq(card, 1, Len(card) - 1)

\* the for loop deciding each Ace when it meets it, 11 if that fits
RECURSIVE for_card_greedy(_, _)
for_card_greedy(hand, st) ==
  IF hand = <<>> \/ st.error THEN st
  ELSE LET rank == card_rank(Head(hand)) IN
       IF rank \in {"K", "Q", "J"}
         THEN for_card_greedy(Tail(hand), [st EXCEPT !.value = @ + 10])
       ELSE IF rank = "A"
         THEN for_card_greedy(Tail(hand),
                [st EXCEPT !.value = IF @ + 11 > 21 THEN @ + 1 ELSE @ + 11])
       ELSE IF IsNumeral(rank)
         THEN for_card_greedy(Tail(hand), [st EXCEPT !.value = @ + int(rank)])
       ELSE [st EXCEPT !.error = TRUE]

RECURSIVE for_card(_, _)
for_card(hand, st) ==
  IF hand = <<>> \/ st.error THEN st
  ELSE LET rank == card_rank(Head(hand)) IN
       IF rank \in {"K", "Q", "J"}
         THEN for_card(Tail(hand), [st EXCEPT !.value = @ + 10])
       ELSE IF rank = "A"
         THEN for_card(Tail(hand), [st EXCEPT !.aces = @ + 1, !.value = @ + 11])
       ELSE IF IsNumeral(rank)
         THEN for_card(Tail(hand), [st EXCEPT !.value = @ + int(rank)])
       ELSE [st EXCEPT !.error = TRUE]

\* the while loop entered at 21 already
RECURSIVE while_aces_at_21(_)
while_aces_at_21(st) ==
  IF st.value >= 21 /\ st.aces > 0
    THEN while_aces_at_21([st EXCEPT !.value = @ - 10, !.aces = @ - 1, !.iters = @ + 1])
    ELSE st

RECURSIVE while_aces(_)
while_aces(st) ==
  IF st.value > 21 /\ st.aces > 0
    THEN while_aces([st EXCEPT !.value = @ - 10, !.aces = @ - 1, !.iters = @ + 1])
    ELSE st

calculate_blackjack_value(hand) ==
  LET st == for_card(hand, [value |-> 0, aces |-> 0, iters |-> 0, error |-> FALSE])
  IN  IF st.error THEN st ELSE while_aces(st)

(***************************************************************************)
(* Zones.  Python indexes from 0: dealer_zone[3] is the fourth component.  *)
(***************************************************************************)
dealer_zone == <<0, 0, width, height \div 2>>
player_zone == <<0, height \div 2, width, height>>

\* the zone tests with the boundary row on the other side
in_dealer_zone_le(y1) == y1 <= dealer_zone[4]
in_player_zone_gt(y1) == y1 > player_zone[2]

in_dealer_zone(y1) == y1 < dealer_zone[4]
in_player_zone(y1) == y1 >= player_zone[2]

(***************************************************************************)
(* list(set(hand)): the distinct cards of hand, in an arbitrary order.     *)
(***************************************************************************)
Range(s) == {s[i] : i \in 1..Len(s)}

\* list(hand): the duplicates are kept
list_keep(hand) == {hand}

list_set(hand) ==
  LET S == Range(hand)
      n == Cardinality(S)
  IN  {l \in [1..n -> S] : \A i, j \in 1..n : l[i] = l[j] => i = j}

(***************************************************************************)
(* The winner decision of the 'S' branch.                                  *)
(***************************************************************************)
\* the decision with the single-bust tests ahead of the double-bust test
winner_single_bust_first(dv, pv) ==
  IF dv > 21 THEN "Dealer busted! Player wins!"
  ELSE IF pv > 21 THEN "Player busted! Dealer wins!"
  ELSE IF dv > 21 /\ pv > 21 THEN "Both players busted! No winner."
  ELSE IF dv > pv THEN "Dealer wins!"
  ELSE IF pv > dv THEN "Player wins!"
  ELSE "It's a draw!"

winner(dv, pv) ==
  IF dv > 21 /\ pv > 21 THEN "Both players busted! No winner."
  ELSE IF dv > 21 THEN "Dealer busted! Player wins!"
  ELSE IF pv > 21 THEN "Player busted! Dealer wins!"
  ELSE IF dv > pv THEN "Dealer wins!"
  ELSE IF pv > dv THEN "Player wins!"
  ELSE "It's a draw!"

(***************************************************************************)
(* State after the module-level initialisation: the camera is open, the    *)
(* game is in progress, no frame has been read.                            *)
(***************************************************************************)
NoBox == [cls |-> -1, y1 |-> -1]

\* the class indices of a set of card names
cls_of(cards) == {c \in 0..(Len(classNames) - 1) : classNames[c + 1] \in cards}

InitWith(h, cards, grid) ==
  /\ pc = "read"
  /\ cap = [width |-> width, height |-> h]
  /\ model = [classes |-> cls_of(cards), grid |-> grid]
  /\ height = 0
  /\ box = NoBox
  /\ nboxes = 0
  /\ dealer_hand = <<>>
  /\ player_hand = <<>>
  /\ dealer_value = 0
  /\ player_value = 0
  /\ shown = <<>>
  /\ game_over = FALSE
  /\ winner_message = ""
  /\ key = no_key

\* boxes on whole pixels / on every half pixel
WholePixels == 2
HalfPixels == 1

Init == InitWith(FrameHeight, DetectableCards, WholePixels)

(***************************************************************************)
(* One iteration of the main loop, in four steps.                          *)
(***************************************************************************)
\* the frame start without 'dealer_value = 0' and 'player_value = 0'
Read_stale_values ==
  /\ pc = "read"
  /\ height' = cap.height
  /\ dealer_hand' = <<>>
  /\ player_hand' = <<>>
  /\ nboxes' = 0
  /\ shown' = <<>>
  /\ pc' = "boxes"
  /\ UNCHANGED <<cap, model, box, dealer_value, player_value, game_over,
                 winner_message, key>>

\* cap.read(), model(img), the per-frame initialisation and the zones
Read ==
  /\ pc = "read"
  /\ height' = cap.height
  /\ dealer_hand' = <<>>
  /\ player_hand' = <<>>
  /\ dealer_value' = 0
  /\ player_value' = 0
  /\ nboxes' = 0
  /\ shown' = <<>>
  /\ pc' = "boxes"
  /\ UNCHANGED <<cap, model, box, game_over, winner_message, key>>

\* one iteration of 'for box in boxes': the stream yields one more detection
ProcessBox ==
  /\ pc = "boxes"
  /\ nboxes < MaxBoxes
  /\ \E cls \in model.classes,
        top \in {t \in 0..(2 * height - 1) : t % model.grid = 0} :
       LET y1 == int_float(top)
           card == classNames[cls + 1]
       IN  /\ box' = [cls |-> cls, y1 |-> top]
           /\ IF in_dealer_zone(y1)
                THEN /\ dealer_hand' = Append(dealer_hand, card)
                     /\ player_hand' = player_hand
              ELSE IF in_player_zone(y1)
                THEN /\ player_hand' = Append(player_hand, card)
                     /\ dealer_hand' = dealer_hand
              ELSE UNCHANGED <<dealer_hand, player_hand>>
  /\ nboxes' = nboxes + 1
  /\ UNCHANGED <<pc, cap, model, height, dealer_value, player_value, shown,
                 game_over, winner_message, key>>

\* the stream is exhausted: both hands are deduplicated
Dedup ==
  /\ pc = "boxes"
  /\ dealer_hand' \in list_set(dealer_hand)
  /\ player_hand' \in list_set(player_hand)
  /\ pc' = "show"
  /\ UNCHANGED <<cap, model, height, box, nboxes, dealer_value, player_value,
                 shown, game_over, winner_message, key>>

(***************************************************************************)
(* The texts of one frame: the value or BUST of each zone whose value was  *)
(* computed, then the winner message when the game is over.  str() is the  *)
(* decimal formatting of the f-string.                                     *)
(***************************************************************************)
RECURSIVE str(_)
str(n) ==
  IF n < 10 THEN SubSeq("0123456789", n + 1, n + 1)
  ELSE str(n \div 10) \o SubSeq("0123456789", (n % 10) + 1, (n % 10) + 1)

dealer_result(v) == "Dealer: " \o (IF v > 21 THEN "BUST" ELSE str(v))
player_result(v) == "Player: " \o (IF v > 21 THEN "BUST" ELSE str(v))

\* every text drawn in every frame
display_unguarded(d_shown, p_shown, dv, pv, over, msg) ==
  <<dealer_result(dv), player_result(pv), msg>>

display(d_shown, p_shown, dv, pv, over, msg) ==
  (IF d_shown THEN <<dealer_result(dv)>> ELSE <<>>)
    \o (IF p_shown THEN <<player_result(pv)>> ELSE <<>>)
    \o (IF over THEN <<msg>> ELSE <<>>)

\* the hand values computed whether or not the game is over
Evaluate_always ==
  /\ pc = "show"
  /\ LET d == calculate_blackjack_value(dealer_hand)
         p == calculate_blackjack_value(player_hand)
         d_called == dealer_hand # <<>>
         p_called == player_hand # <<>>
     IN  /\ dealer_value' = IF d_called /\ ~d.error THEN d.value ELSE dealer_value
         /\ player_value' =
              IF p_called /\ ~p.error /\ ~(d_called /\ d.error)
                THEN p.value ELSE player_value
         /\ shown' = display(d_called /\ ~d.error,
                             p_called /\ ~p.error /\ ~(d_called /\ d.error),
                             d.value, p.value,
                             game_over /\ ~(d_called /\ d.error) /\ ~(p_called /\ p.error),
                             winner_message)
         /\ pc' = IF (d_called /\ d.error) \/ (p_called /\ p.error)
                    THEN "error" ELSE "key"
  /\ UNCHANGED <<cap, model, height, box, nboxes, dealer_hand, player_hand,
                 game_over, winner_message, key>>

\* 'if not game_over': the hand values of the zones that hold cards, and
\* the texts of the frame
Evaluate ==
  /\ pc = "show"
  /\ LET d == calculate_blackjack_value(dealer_hand)
         p == calculate_blackjack_value(player_hand)
         d_called == ~game_over /\ dealer_hand # <<>>
         p_called == ~game_over /\ player_hand # <<>>
     IN  /\ dealer_value' = IF d_called /\ ~d.error THEN d.value ELSE dealer_value
         /\ player_value' =
              IF p_called /\ ~p.error /\ ~(d_called /\ d.error)
                THEN p.value ELSE player_value
         /\ shown' = display(d_called /\ ~d.error,
                             p_called /\ ~p.error /\ ~(d_called /\ d.error),
                             d.value, p.value,
                             game_over /\ ~(d_called /\ d.error) /\ ~(p_called /\ p.error),
                             winner_message)
         /\ pc' = IF (d_called /\ d.error) \/ (p_called /\ p.error)
                    THEN "error" ELSE "key"
  /\ UNCHANGED <<cap, model, height, box, nboxes, dealer_hand, player_hand,
                 game_over, winner_message, key>>

\* the 'S' test accepting the lower-case key too
HandleKey_any_case(k) ==
  /\ pc = "key"
  /\ key' = k
  /\ IF k = ord_D
       THEN /\ game_over' = FALSE
            /\ winner_message' = ""
     ELSE IF k \in {ord_S, ord_s}
       THEN /\ game_over' = TRUE
            /\ winner_message' = winner(dealer_value, player_value)
     ELSE UNCHANGED <<game_over, winner_message>>
  /\ pc' = IF k = ord_q THEN "exit" ELSE "read"
  /\ UNCHANGED <<cap, model, height, box, nboxes, dealer_hand, player_hand,
                 dealer_value, player_value, shown>>

\* the 'D' branch without 'winner_message = ""'
HandleKey_keep_message(k) ==
  /\ pc = "key"
  /\ key' = k
  /\ IF k = ord_D
       THEN /\ game_over' = FALSE
            /\ winner_message' = winner_message
     ELSE IF k = ord_S
       THEN /\ game_over' = TRUE
            /\ winner_message' = winner(dealer_value, player_value)
     ELSE UNCHANGED <<game_over, winner_message>>
  /\ pc' = IF k = ord_q THEN "exit" ELSE "read"
  /\ UNCHANGED <<cap, model, height, box, nboxes, dealer_hand, player_hand,
                 dealer_value, player_value, shown>>

\* cv2.waitKey and the three key tests
HandleKey(k) ==
  /\ pc = "key"
  /\ key' = k
  /\ IF k = ord_D
       THEN /\ game_over' = FALSE
            /\ winner_message' = ""
     ELSE IF k = ord_S
       THEN /\ game_over' = TRUE
            /\ winner_message' = winner(dealer_value, player_value)
     ELSE UNCHANGED <<game_over, winner_message>>
  /\ pc' = IF k = ord_q THEN "exit" ELSE "read"
  /\ UNCHANGED <<cap, model, height, box, nboxes, dealer_hand, player_hand,
                 dealer_value, player_value, shown>>

Next ==
  \/ Read
  \/ ProcessBox
  \/ Dedup
  \/ Evaluate
  \/ \E k \in Keys : HandleKey(k)

Spec == Init /\ [][Next]_vars

(***************************************************************************)
(* ZoneSpec: the same loop behind cameras of every height 1..MaxHeight     *)
(* (odd heights included) and a detector that also reports Aces and puts   *)
(* boxes on every half pixel, with at most MaxZoneBoxes detections in a    *)
(* frame.                                                                  *)
(***************************************************************************)
ZoneInit == \E h \in 1..MaxHeight : InitWith(h, ZoneCards, HalfPixels)

ZoneProcessBox == nboxes < MaxZoneBoxes /\ ProcessBox

ZoneNext ==
  \/ Read
  \/ ZoneProcessBox
  \/ Dedup
  \/ Evaluate
  \/ \E k \in Keys : HandleKey(k)

ZoneSpec == ZoneInit /\ [][ZoneNext]_vars

(***************************************************************************)
(* EvalSpec: the evaluation step of the first frame, for every hand of at  *)
(* most MaxHand distinct cards of EvalCards lying in the dealer zone, in   *)
(* every order list(set(...)) can produce.                                 *)
(***************************************************************************)
NoDupSeqs(S, n) ==
  UNION {{l \in [1..m -> S] : \A i, j \in 1..m : l[i] = l[j] => i = j} : m \in 0..n}

cls_index(card) == CHOOSE c \in 0..(Len(classNames) - 1) : classNames[c + 1] = card

EvalInit ==
  /\ pc = "show"
  /\ cap = [width |-> width, height |-> FrameHeight]
  /\ model = [classes |-> cls_of(EvalCards), grid |-> WholePixels]
  /\ height = FrameHeight
  /\ dealer_hand \in NoDupSeqs(EvalCards, MaxHand)
  /\ player_hand = <<>>
  /\ nboxes = Len(dealer_hand)
  /\ box = IF dealer_hand = <<>> THEN NoBox
           ELSE [cls |-> cls_index(dealer_hand[1]), y1 |-> 0]
  /\ dealer_value = 0
  /\ player_value = 0
  /\ shown = <<>>
  /\ game_over = FALSE
  /\ winner_message = ""
  /\ key = no_key

EvalNext == Evaluate

EvalSpec == EvalInit /\ [][EvalNext]_vars

(***************************************************************************)
(* CardSpec: the evaluation step applied to hands of at most MaxCardHand   *)
(* identifiers, some of them outside classNames (calculate_blackjack_value *)
(* as a function of any list of strings, not only of what the detector     *)
(* reports).                                                               *)
(***************************************************************************)
CardInit ==
  /\ pc = "show"
  /\ cap = [width |-> width, height |-> FrameHeight]
  /\ model = [classes |-> cls_of(EvalCards), grid |-> WholePixels]
  /\ height = FrameHeight
  /\ dealer_hand \in NoDupSeqs(CardIdentifiers, MaxCardHand)
  /\ player_hand = <<>>
  /\ nboxes = Len(dealer_hand)
  /\ box = NoBox
  /\ dealer_value = 0
  /\ player_value = 0
  /\ shown = <<>>
  /\ game_over = FALSE
  /\ winner_message = ""
  /\ key = no_key

CardNext == Evaluate

CardSpec == CardInit /\ [][CardNext]_vars

(***************************************************************************)
(* PermSpec: the evaluation step of a first frame in which the same cards  *)
(* (at most MaxPermHand of PermCards) were detected in both zones: the two *)
(* hands are any two orders list(set(...)) can give to the same set.       *)
(***************************************************************************)
PermInit ==
  /\ pc = "show"
  /\ cap = [width |-> width, height |-> FrameHeight]
  /\ model = [classes |-> cls_of(PermCards), grid |-> WholePixels]
  /\ height = FrameHeight
  /\ dealer_hand \in NoDupSeqs(PermCards, MaxPermHand)
  /\ player_hand \in list_set(dealer_hand)
  /\ nboxes = 2 * Len(dealer_hand)
  /\ box = IF dealer_hand = <<>> THEN NoBox
           ELSE [cls |-> cls_index(dealer_hand[1]), y1 |-> 0]
  /\ dealer_value = 0
  /\ player_value = 0
  /\ shown = <<>>
  /\ game_over = FALSE
  /\ winner_message = ""
  /\ key = no_key

PermNext == Evaluate

PermSpec == PermInit /\ [][PermNext]_vars

(***************************************************************************)
(* Properties.  The reference definitions below are written from the       *)
(* rules of the game, not from the loops of calculate_blackjack_value.     *)
(***************************************************************************)
MsgBoth == "Both players busted! No winner."
MsgDealerBust == "Dealer busted! Player wins!"
MsgPlayerBust == "Player busted! Dealer wins!"
MsgDealer == "Dealer wins!"
MsgPlayer == "Player wins!"
MsgDraw == "It's a draw!"

\* the verdict for a pair of hand values, each rule with its full condition
Verdict(dv, pv) ==
  CASE dv > 21 /\ pv > 21 -> MsgBoth
    [] dv > 21 /\ pv <= 21 -> MsgDealerBust
    [] dv <= 21 /\ pv > 21 -> MsgPlayerBust
    [] dv <= 21 /\ pv <= 21 /\ dv > pv -> MsgDealer
    [] dv <= 21 /\ pv <= 21 /\ pv > dv -> MsgPlayer
    [] dv <= 21 /\ pv <= 21 /\ dv = pv -> MsgDraw

RankPoints(card) ==
  LET r == SubSeq(card, 1, Len(card) - 1)
  IN  CASE r = "2" -> 2 [] r = "3" -> 3 [] r = "4" -> 4 [] r = "5" -> 5
        [] r = "6" -> 6 [] r = "7" -> 7 [] r = "8" -> 8 [] r = "9" -> 9
        [] r = "10" -> 10 [] r = "J" -> 10 [] r = "Q" -> 10 [] r = "K" -> 10
        [] r = "A" -> 1

IsAce(card) == SubSeq(card, 1, Len(card) - 1) = "A"

RECURSIVE PlainSum(_)
PlainSum(S) ==
  IF S = {} THEN 0
  ELSE LET c == CHOOSE x \in S : TRUE IN RankPoints(c) + PlainSum(S \ {c})

SetMax(S) == CHOOSE m \in S : \A x \in S : x <= m

\* the best Blackjack total of a set of cards: the largest total <= 21 with
\* every Ace counted 1 or 11 if there is one, else the total with Aces at 1
BestTotal(S) ==
  LET k == Cardinality({c \in S : IsAce(c)})
      hard == PlainSum(S)
      fits == {hard + 10 * j : j \in 0..k} \cap (0..21)
  IN  IF fits # {} THEN SetMax(fits) ELSE hard

\* the value of a zone: 0 when no card is detected in it
ZoneValue(hand) == IF hand = <<>> THEN 0 ELSE BestTotal(Range(hand))

Count(c, l) == Cardinality({i \in 1..Len(l) : l[i] = c})

\* steps of the loop, recognised from the two states of the step
EndStep == pc = "key" /\ key' = ord_S
ResetStep == pc = "key" /\ key' = ord_D
BoxStep == pc = "boxes" /\ pc' = "boxes"
DedupStep == pc = "boxes" /\ pc' = "show"
EvalStep == pc = "show" /\ pc' = "key"
BoxCard == classNames[box'.cls + 1]
ToDealer == dealer_hand' = Append(dealer_hand, BoxCard) /\ player_hand' = player_hand
ToPlayer == player_hand' = Append(player_hand, BoxCard) /\ dealer_hand' = dealer_hand

\* C1: an End step sets the game over and sets the winner message by the
\* precedence both bust, dealer bust, player bust, dealer higher, player
\* higher, draw, applied to the current dealer and player values; the
\* decision agrees with that precedence on every pair of values 0..30, and
\* on the three examples (22,18), (20,20), (17,19).
C1_WinnerByPrecedence ==
  /\ \A dv, pv \in 0..30 : winner(dv, pv) = Verdict(dv, pv)
  /\ winner(22, 18) = MsgDealerBust
  /\ winner(20, 20) = MsgDraw
  /\ winner(17, 19) = MsgPlayer
  /\ [][EndStep => (/\ game_over'
                    /\ winner_message' = Verdict(dealer_value, player_value))]_vars

\* End was pressed in a frame in which both zones were bust
C1_Witness ==
  /\ pc = "read" /\ key = ord_S /\ game_over
  /\ dealer_value > 21 /\ player_value > 21
  /\ winner_message = MsgBoth

\* C2: while the game stays over, the winner message does not change
\* (whatever frames and End presses arrive before the next Reset).
C2_MessageFrozen ==
  [][(game_over /\ game_over') => winner_message' = winner_message]_vars

C4_ResetRoundTrip ==
  [][(ResetStep /\ game_over) =>
       (/\ ~game_over'
        /\ winner_message' = ""
        /\ UNCHANGED <<cap, model, height, box, nboxes, dealer_hand,
                       player_hand, dealer_value, player_value, shown>>)]_vars

\* Reset was pressed in a frame that was over (the dealer's cards were not
\* evaluated)
C4_Witness ==
  /\ pc = "read" /\ key = ord_D
  /\ dealer_hand # <<>> /\ dealer_value = 0
  /\ ~game_over /\ winner_message = ""

\* C5: the value computed for a hand is the largest total <= 21 obtainable
\* with each Ace counted 1 or 11 when there is one, else the total with all
\* Aces at 1; {AH} is 11, {AH,AD} is 12, {AH,AD,9C} is 21.
C5_AceAdjustment ==
  pc = "key" =>
    /\ dealer_hand # <<>> => dealer_value = BestTotal(Range(dealer_hand))
    /\ Range(dealer_hand) = {"AH"} => dealer_value = 11
    /\ Range(dealer_hand) = {"AH", "AD"} => dealer_value = 12
    /\ Range(dealer_hand) = {"AH", "AD", "9C"} => dealer_value = 21

\* the hand {AH, AD, 9C} has been evaluated
C5_Witness ==
  pc = "key" /\ Range(dealer_hand) = {"AH", "AD", "9C"} /\ dealer_value = 21

\* C6: the value computed for a hand without Aces is the plain sum of the
\* rank values; the empty hand has value 0 and is not bust.
C6_PlainSumWithoutAces ==
  /\ calculate_blackjack_value(<<>>).value = 0
  /\ pc = "key" =>
       /\ (\A i \in 1..Len(dealer_hand) : ~IsAce(dealer_hand[i]))
            => dealer_value = PlainSum(Range(dealer_hand))
       /\ dealer_hand = <<>> => (dealer_value = 0 /\ ~(dealer_value > 21))

\* a hand of a ten, a face card and two number cards has been evaluated
C6_Witness ==
  pc = "key" /\ Range(dealer_hand) = {"10H", "JD", "9C", "5S"} /\ dealer_value = 34

\* C7: the hands and values start empty and 0 in every frame, a hand only
\* receives the card of the detection being processed, deduplication keeps
\* the set of cards, and an End step taken while the game is in progress
\* decides on the values of the cards of that frame's zones, 0 for a zone
\* without cards.
C7_EndUsesFrameSnapshot ==
  [][/\ pc = "read" => (/\ dealer_hand' = <<>> /\ player_hand' = <<>>
                        /\ dealer_value' = 0 /\ player_value' = 0)
     /\ BoxStep => (\/ ToDealer \/ ToPlayer
                    \/ UNCHANGED <<dealer_hand, player_hand>>)
     /\ DedupStep => (/\ Range(dealer_hand') = Range(dealer_hand)
                      /\ Range(player_hand') = Range(player_hand))
     /\ (EndStep /\ ~game_over) =>
          (/\ dealer_value = ZoneValue(dealer_hand)
           /\ player_value = ZoneValue(player_hand)
           /\ winner_message' =
                Verdict(ZoneValue(dealer_hand), ZoneValue(player_hand)))]_vars

\* End was pressed in progress in a frame with player cards and an empty
\* dealer zone: the dealer counts 0 and the player wins
C7_Witness ==
  /\ pc = "read" /\ key = ord_S
  /\ dealer_hand = <<>> /\ dealer_value = 0
  /\ player_hand # <<>> /\ player_value > 0 /\ player_value <= 21
  /\ winner_message = MsgPlayer

\* C8: after deduplication every card detected in a zone is in that zone's
\* hand exactly once, and the value computed for the zone is the value of
\* its cards counted once each.
C8_DedupOnce ==
  [][/\ DedupStep =>
          (/\ \A c \in Range(dealer_hand) : Count(c, dealer_hand') = 1
           /\ \A c \in Range(player_hand) : Count(c, player_hand') = 1)
     /\ (EvalStep /\ ~game_over) =>
          (/\ dealer_value' = ZoneValue(dealer_hand)
           /\ player_value' = ZoneValue(player_hand))]_vars

\* one ten-valued card was detected at least twice in the dealer zone and
\* nothing else in the frame: the dealer hand holds it once and is worth 10
C8_Witness ==
  /\ pc = "key" /\ ~game_over
  /\ nboxes >= 2 /\ Len(dealer_hand) = 1 /\ player_hand = <<>>
  /\ dealer_value = 10

\* C9 as stated: a detection goes to the dealer exactly when its top edge
\* is above the true half of the frame height, else to the player
\* (box.y1 and the comparison are in half pixels).
C9_TrueHalf ==
  [][BoxStep => (/\ box'.y1 < height => ToDealer
                 /\ box'.y1 >= height => ToPlayer)]_vars

\* C9 amended: the boundary is the integer half height // 2: a detection
\* goes to the dealer exactly when its top edge is below height // 2 and to
\* the player exactly when it is at or past that row.
C9_FloorHalf ==
  [][BoxStep => (/\ box'.y1 < 2 * (height \div 2) => (ToDealer /\ ~ToPlayer)
                 /\ box'.y1 >= 2 * (height \div 2) => (ToPlayer /\ ~ToDealer))]_vars

\* in a frame of height 3 the first detection has its top edge at 1.0,
\* above the true half 1.5, and is in the player hand
C9_Witness ==
  /\ pc = "boxes" /\ height = 3 /\ nboxes = 1
  /\ box.y1 = 2
  /\ dealer_hand = <<>> /\ Len(player_hand) = 1

\* C10: every processed detection adds its card to exactly one of the two
\* hands.
C10_ExactlyOneZone ==
  [][BoxStep => (/\ ToDealer \/ ToPlayer
                 /\ ~(ToDealer /\ ToPlayer)
                 /\ Len(dealer_hand') + Len(player_hand')
                      = Len(dealer_hand) + Len(player_hand) + 1)]_vars

\* two detections of a frame went to different zones
C10_Witness ==
  /\ pc = "boxes" /\ nboxes = 2
  /\ Len(dealer_hand) = 1 /\ Len(player_hand) = 1

\* C11: a step of the loop that is neither an End step nor a Reset step
\* (reading the frame, processing a detection, deduplication, evaluation,
\* any other key or no key) leaves game_over and winner_message unchanged.
C11_OnlyEndAndResetMutate ==
  [][~(EndStep \/ ResetStep) => UNCHANGED <<game_over, winner_message>>]_vars

\* a whole frame with detected cards passed while the game was over and an
\* unhandled key was pressed: the verdict is still there
C11_Witness ==
  /\ pc = "read" /\ key = ord_s
  /\ dealer_hand # <<>> /\ dealer_value = 0
  /\ game_over /\ winner_message = MsgDealer

\* the decimal numerals of the values a hand that is not bust can have
Decimal ==
  << "0", "1", "2", "3", "4", "5", "6", "7", "8", "9", "10", "11", "12",
     "13", "14", "15", "16", "17", "18", "19", "20", "21" >>

\* the text of a zone: its value, or its bust status
ZoneText(who, v) == who \o ": " \o (IF v > 21 THEN "BUST" ELSE Decimal[v + 1])

\* C12 as stated: the texts of a frame are the winner message alone when
\* the game is over, and the dealer's and the player's value or bust status
\* when it is in progress.
C12_LiveValuesOrWinner ==
  [][EvalStep =>
       shown' = IF game_over THEN <<winner_message>>
                ELSE <<ZoneText("Dealer", ZoneValue(dealer_hand)),
                       ZoneText("Player", ZoneValue(player_hand))>>]_vars

\* C12 amended: the texts of a frame are the winner message alone when the
\* game is over; when it is in progress they are the value or bust status
\* of each zone that holds a detected card, nothing for a zone without
\* cards, and never the winner message.
C12_LiveValuesOfHeldZonesOrWinner ==
  [][EvalStep =>
       shown' = IF game_over THEN <<winner_message>>
                ELSE (IF dealer_hand # <<>>
                        THEN <<ZoneText("Dealer", ZoneValue(dealer_hand))>>
                        ELSE <<>>)
                     \o (IF player_hand # <<>>
                           THEN <<ZoneText("Player", ZoneValue(player_hand))>>
                           ELSE <<>>)]_vars

\* an in-progress frame with a bust player and no dealer card shows the
\* player's bust status only
C12_Witness ==
  /\ pc = "key" /\ ~game_over
  /\ dealer_hand = <<>> /\ player_hand # <<>> /\ player_value > 21
  /\ shown = <<"Player: BUST">>

\* C13: once a hand holding an identifier that is not one of the 52 card
\* names has been evaluated, the evaluation has failed with an error (no
\* hand value has been returned).
C13_InvalidCardFails ==
  (pc # "show" /\ \E i \in 1..Len(dealer_hand) : dealer_hand[i] \notin Range(classNames))
    => pc = "error"

NumAces(hand) == Cardinality({i \in 1..Len(hand) : IsAce(hand[i])})

\* C14: for every evaluated hand the Ace loop has ended after at most as
\* many iterations as the hand has Aces, each iteration lowering the total
\* by 10 and using up one Ace, and after no iteration at all when the total
\* with every Ace at 11 is at most 21.
C14_AceLoopBounded ==
  (pc = "key" /\ dealer_hand # <<>>) =>
    LET r == calculate_blackjack_value(dealer_hand)
        k == NumAces(dealer_hand)
        soft == PlainSum(Range(dealer_hand)) + 10 * k
    IN  /\ r.value = dealer_value
        /\ r.iters \in 0..k
        /\ r.aces = k - r.iters
        /\ r.value = soft - 10 * r.iters
        /\ soft <= 21 => r.iters = 0

\* a hand with two Aces whose total stays above 21: the loop has run once
\* for each Ace
C14_Witness ==
  /\ pc = "key" /\ Range(dealer_hand) = {"AH", "AD", "KS", "QC"}
  /\ dealer_value = 22
  /\ calculate_blackjack_value(dealer_hand).iters = 2

\* C15: the winner message is empty exactly when the game is not over, and
\* when the game is over it is one of the six verdict messages.
C15_MessageIffEnded ==
  /\ winner_message = "" <=> ~game_over
  /\ game_over => winner_message \in {MsgBoth, MsgDealerBust, MsgPlayerBust,
                                      MsgDealer, MsgPlayer, MsgDraw}

\* at a frame boundary the game is over on a bust player
C15_Witness ==
  /\ pc = "read" /\ game_over /\ winner_message = MsgPlayerBust
  /\ player_value > 21 /\ dealer_value <= 21

\* C16: two hands holding the same cards in different orders are given the
\* same value.
C16_OrderIndependent ==
  (pc = "key" /\ Range(dealer_hand) = Range(player_hand))
    => dealer_value = player_value

\* two Aces and a King, evaluated in two opposite orders
C16_Witness ==
  /\ pc = "key"
  /\ dealer_hand = <<"AH", "AD", "KS">> /\ player_hand = <<"KS", "AD", "AH">>
  /\ dealer_value = 12 /\ player_value = 12

====
